---- MODULE Spec2Model ----
(***************************************************************************)
(* Model of two views of the Firebase emulator UI:                         *)
(*   - DocumentEditor (components/Firestore/DocumentEditor/index.tsx): a   *)
(*     tree of NestedEditor components over a document held in a reducer   *)
(*     store, with the actions each rendered control dispatches;           *)
(*   - EvaluationDetails (components/Firestore/Rules/EvaluationDetails.tsx)*)
(*     a connected component that fetches the evaluation named in the URL  *)
(*     and shows its line outcomes.                                        *)
(* A JavaScript value is a record [t |-> runtime kind, v |-> payload]; an   *)
(* object also carries its own keys in insertion order.                    *)
(***************************************************************************)
EXTENDS Integers, Sequences, FiniteSets

\* Largest number of fields (nodes below the implicit top-level map) a document may hold.
MaxNodes == 2

\* Field names a user types into a key text field ('' is the name addField gives a new field).
Keys == {"", "a"}

(***************************************************************************)
(* JavaScript values                                                       *)
(***************************************************************************)
Undefined == [t |-> "undefined", v |-> 0]

Null == [t |-> "null", v |-> 0]

Str(s) == [t |-> "string", v |-> s]

Num(n) == [t |-> "number", v |-> n]

Bool(b) == [t |-> "boolean", v |-> b]

Timestamp(n) == [t |-> "Timestamp", v |-> n]

GeoPoint(n) == [t |-> "GeoPoint", v |-> n]

DocumentReference(p) == [t |-> "DocumentReference", v |-> p]

\* A plain object: its own keys in insertion order (none of the model's keys is an
\* integer index, which Object.keys would list first) and the function from keys to values.
Obj(ks, f) == [t |-> "Object", keys |-> ks, v |-> f]

\* An array: a sequence of values (JavaScript index i is position i + 1).
Arr(s) == [t |-> "Array", v |-> s]

EmptyObj == Obj(<<>>, [k \in {} |-> Null])

(***************************************************************************)
(* ../models and ../utils                                                  *)
(***************************************************************************)
FIRESTORE_FIELD_TYPES ==
  <<"string", "number", "boolean", "map", "array", "null", "timestamp", "geopoint", "reference">>

RTDB_FIELD_TYPES == <<"string", "number", "boolean", "map", "array">>

getFieldType(value) ==
  IF value.t = "null" THEN "null"
  ELSE IF value.t = "Timestamp" THEN "timestamp"
  ELSE IF value.t = "Array" THEN "array"
  ELSE IF value.t = "DocumentReference" THEN "reference"
  ELSE IF value.t = "GeoPoint" THEN "geopoint"
  ELSE IF value.t = "Object" THEN "map"
  ELSE value.t

isString(value) == value.t = "string"

isNumber(value) == value.t = "number"

isBoolean(value) == value.t = "boolean"

isGeoPoint(value) == value.t = "GeoPoint"

isTimestamp(value) == value.t = "Timestamp"

isReference(value) == value.t = "DocumentReference"

isMap(value) == getFieldType(value) = "map"

isArray(value) == value.t = "Array"

isPrimitive(value) == ~isMap(value) /\ ~isArray(value)

lastFieldName(path) == path[Len(path)]

getParentPath(path) == SubSeq(path, 1, Len(path) - 1)

Digits == <<"0", "1", "2", "3", "4", "5", "6", "7", "8", "9">>

\* `${index}`: the decimal text of a non-negative integer.
RECURSIVE IndexString(_)
IndexString(n) == IF n < 10 THEN Digits[n + 1] ELSE IndexString(n \div 10) \o Digits[(n % 10) + 1]

NaN == -1

\* Number(text) for the texts of the model: '' is 0, a decimal text its number, anything else NaN.
NumberOf(text) ==
  IF text = "" THEN 0
  ELSE IF \E n \in 0..(MaxNodes + 1) : IndexString(n) = text
       THEN CHOOSE n \in 0..(MaxNodes + 1) : IndexString(n) = text
       ELSE NaN

\* The value a field takes when its type is changed.
defaultValueForType(type) ==
  CASE type = "string" -> Str("")
    [] type = "number" -> Num(0)
    [] type = "boolean" -> Bool(TRUE)
    [] type = "map" -> EmptyObj
    [] type = "array" -> Arr(<<>>)
    [] type = "null" -> Null
    [] type = "timestamp" -> Timestamp(0)
    [] type = "geopoint" -> GeoPoint(0)
    [] type = "reference" -> DocumentReference("")

(***************************************************************************)
(* ./store: the document reducer and its hooks                             *)
(***************************************************************************)
\* Object.keys(obj): the own keys in insertion order.
Object_keys(obj) == obj.keys

\* lodash get(object, path); the empty path stands for the object itself.
RECURSIVE get(_, _)
get(object, path) ==
  IF path = <<>> THEN object
  ELSE IF object.t = "Object" /\ Head(path) \in DOMAIN object.v
       THEN get(object.v[Head(path)], Tail(path))
  ELSE IF object.t = "Array" /\ NumberOf(Head(path)) # NaN /\ Head(path) # ""
          /\ NumberOf(Head(path)) < Len(object.v)
       THEN get(object.v[NumberOf(Head(path)) + 1], Tail(path))
  ELSE Undefined

useFieldState(doc, path) == get(doc, path)

Falsy(value) ==
  \/ value.t \in {"undefined", "null"}
  \/ value.t = "string" /\ value.v = ""
  \/ value.t = "number" /\ value.v = 0
  \/ value.t = "boolean" /\ value.v = FALSE

\* Where `get(draft, getParentPath(path)) || draft` points.
ParentPathIn(draft, path) ==
  IF getParentPath(path) = <<>> \/ Falsy(get(draft, getParentPath(path)))
  THEN <<>>
  ELSE getParentPath(path)

\* The draft with the value at an existing path replaced (produce's copy on write).
RECURSIVE ReplaceAt(_, _, _)
ReplaceAt(value, path, new) ==
  IF path = <<>> THEN new
  ELSE IF value.t = "Object"
       THEN [value EXCEPT !.v[Head(path)] = ReplaceAt(@, Tail(path), new)]
       ELSE [value EXCEPT !.v[NumberOf(Head(path)) + 1] = ReplaceAt(@, Tail(path), new)]

\* obj[key] = value: an existing key keeps its place, a new key goes last.
SetKey(obj, key, value) ==
  Obj(IF key \in DOMAIN obj.v THEN obj.keys ELSE Append(obj.keys, key),
      [k \in (DOMAIN obj.v) \cup {key} |-> IF k = key THEN value ELSE obj.v[k]])

\* delete obj[key]
DeleteKey(obj, key) ==
  Obj(SelectSeq(obj.keys, LAMBDA k : k # key), [k \in (DOMAIN obj.v) \ {key} |-> obj.v[k]])

\* array.splice(start, 1)
Splice1(arr, start) ==
  LET s == IF start = NaN THEN 0 ELSE start
  IN  IF s >= Len(arr.v) THEN arr
      ELSE Arr(SubSeq(arr.v, 1, s) \o SubSeq(arr.v, s + 2, Len(arr.v)))

SetIndex(arr, index, value) ==
  IF index = NaN \/ index > Len(arr.v) THEN arr
  ELSE IF index = Len(arr.v) THEN Arr(Append(arr.v, value))
  ELSE Arr([arr.v EXCEPT ![index + 1] = value])

addFieldReducer(draft, payload) ==
  LET pp == ParentPathIn(draft, payload.path)
      parent == get(draft, pp)
  IN  IF isMap(parent)
      THEN ReplaceAt(draft, pp, SetKey(parent, lastFieldName(payload.path), payload.value))
      ELSE IF isArray(parent)
      THEN ReplaceAt(draft, pp, Arr(Append(parent.v, payload.value)))
      ELSE draft

updateFieldReducer(draft, payload) ==
  LET pp == ParentPathIn(draft, payload.path)
      parent == get(draft, pp)
  IN  IF isMap(parent)
      THEN ReplaceAt(draft, pp, SetKey(parent, lastFieldName(payload.path), payload.value))
      ELSE IF isArray(parent)
      THEN ReplaceAt(draft, pp,
                     SetIndex(parent, NumberOf(lastFieldName(payload.path)), payload.value))
      ELSE draft

deleteFieldReducer(draft, payload) ==
  LET pp == ParentPathIn(draft, payload.path)
      parent == get(draft, pp)
  IN  IF isMap(parent)
      THEN ReplaceAt(draft, pp, DeleteKey(parent, lastFieldName(payload.path)))
      ELSE IF isArray(parent)
      THEN ReplaceAt(draft, pp, Splice1(parent, NumberOf(lastFieldName(payload.path))))
      ELSE draft

updateKeyReducer(draft, payload) ==
  LET pp == ParentPathIn(draft, payload.path)
      parent == get(draft, pp)
      old == lastFieldName(payload.path)
  IN  IF isMap(parent) /\ old \in DOMAIN parent.v /\ payload.key # old
      THEN ReplaceAt(draft, pp, SetKey(DeleteKey(parent, old), payload.key, parent.v[old]))
      ELSE draft

updateTypeReducer(draft, payload) ==
  updateFieldReducer(draft, [path |-> payload.path,
                             value |-> defaultValueForType(payload.fieldType)])

reducer(draft, action) ==
  CASE action.type = "addField" -> addFieldReducer(draft, action)
    [] action.type = "updateField" -> updateFieldReducer(draft, action)
    [] action.type = "deleteField" -> deleteFieldReducer(draft, action)
    [] action.type = "updateKey" -> updateKeyReducer(draft, action)
    [] action.type = "updateType" -> updateTypeReducer(draft, action)

\* Whether the reducer's result is a new state object. A document of other content is a
\* new object. Whether a run of the reducer that leaves the content as it was hands back
\* the object it was given is not decided here: both outcomes are allowed.
NewStateOutcomes(draft, action) ==
  IF reducer(draft, action) # draft THEN {TRUE} ELSE {FALSE, TRUE}

(***************************************************************************)
(* ./actions                                                               *)
(***************************************************************************)
addField(payload) == [type |-> "addField", path |-> payload.path, value |-> payload.value]

updateField(payload) == [type |-> "updateField", path |-> payload.path, value |-> payload.value]

deleteField(path) == [type |-> "deleteField", path |-> path]

updateKey(payload) == [type |-> "updateKey", path |-> payload.path, key |-> payload.key]

updateType(payload) == [type |-> "updateType", path |-> payload.path, fieldType |-> payload.type]

NoAction == [type |-> "none"]

(***************************************************************************)
(* ./index.tsx: what DocumentEditor renders                                *)
(***************************************************************************)
VARIABLES
  areRootKeysMutable,   \* prop of DocumentEditor
  areRootFieldsMutable, \* prop of DocumentEditor
  isRtdb,               \* prop rtdb of DocumentEditor
  onChange,             \* prop onChange: "none" when absent, else the identity of the callback
  mounted,              \* DocumentEditor is mounted
  state,                \* the document store's state (useDocumentState)
  stateRef,             \* the identity of the state object: it flips with every new object
  keyText,              \* per mounted NestedEditor (by path): its local state `key`
  lastAction,           \* the action most recently handed to the store's dispatch
  effectPending,        \* RootField's effect is scheduled and has not run yet
  effectDeps,           \* the dependency list of RootField's effect at the last render
  onChangeArg           \* the argument of the most recent onChange call

docVars == <<areRootKeysMutable, areRootFieldsMutable, isRtdb, onChange, mounted, state,
             stateRef, keyText, lastAction, effectPending, effectDeps, onChangeArg>>

VARIABLES
  evaluationId,                \* useParams().evaluationId at the last render of EvaluationDetails
  requestEvaluations,          \* store: the evaluations received from the emulator, by request id
  selectedRequestEvaluationId, \* store: the id getRequestEvaluationById selected
  evalMounted,                 \* EvaluationDetails is mounted
  evalEffectPending,           \* its effect is scheduled and has not run yet
  evalEffectDeps,              \* the dependency list of its effect at the last render
  evalLastAction               \* the action most recently dispatched through its props

evalVars == <<evaluationId, requestEvaluations, selectedRequestEvaluationId, evalMounted,
              evalEffectPending, evalEffectDeps, evalLastAction>>

vars == <<docVars, evalVars>>

RECURSIVE Flatten(_)
Flatten(seqs) == IF seqs = <<>> THEN <<>> ELSE Head(seqs) \o Flatten(Tail(seqs))

\* Line 171: the path of a map's child editor.
MapChildPath(path, childLeaf) == Append(path, childLeaf)

\* Line 178: the path of an array's child editor.
ArrayChildPathByLength(path, index) == Append(path, IndexString(Len(path)))

ArrayChildPath(path, index) == Append(path, IndexString(index))

\* Lines 173 and 179: isKeyMutable of a child editor.
ChildKeyMutable(parentState) == IF isMap(parentState) THEN TRUE ELSE FALSE

\* The NestedEditor elements rendered for the field at `path` and below it, in render
\* order; each element carries the props it was given.
RECURSIVE NestedEditor(_, _, _, _)
NestedEditor(doc, path, isKeyMutable, rtdb) ==
  LET fieldState == useFieldState(doc, path)
      self == [path |-> path, isKeyMutable |-> isKeyMutable, isRtdb |-> rtdb]
      childEditors ==
        IF isMap(fieldState)
        THEN LET ks == Object_keys(fieldState)
             IN  Flatten([i \in 1..Len(ks) |->
                   NestedEditor(doc, MapChildPath(path, ks[i]),
                                ChildKeyMutable(fieldState), FALSE)])
        ELSE IF isArray(fieldState)
        THEN Flatten([i \in 1..Len(fieldState.v) |->
                   NestedEditor(doc, ArrayChildPath(path, i - 1),
                                ChildKeyMutable(fieldState), FALSE)])
        ELSE <<>>
  IN  <<self>> \o childEditors

\* Lines 127-133: RootField renders one NestedEditor per key of the document.
RootField(doc, rootKeysMutable, rtdb) ==
  LET ks == Object_keys(doc)
  IN  Flatten([i \in 1..Len(ks) |-> NestedEditor(doc, <<ks[i]>>, rootKeysMutable, rtdb)])

\* Lines 134-151: the buttons RootField renders itself, each with the action its click dispatches.
RootFieldButtons(doc, rootFieldsMutable) ==
  LET ks == Object_keys(doc)
  IN  (IF rootFieldsMutable
       THEN [i \in 1..Len(ks) |-> [label |-> "Remove field", action |-> deleteField(<<ks[i]>>)]]
       ELSE <<>>)
      \o (IF rootFieldsMutable
          THEN <<[label |-> "Add field",
                  action |-> addField([path |-> <<"">>, value |-> Str("")])]>>
          ELSE <<>>)

\* Line 267: when a NestedEditor offers its own Remove field button.
RemoveOfferedAnyDepth(path, fieldState) == Len(path) > 0 /\ isPrimitive(fieldState)

RemoveOffered(path, fieldState) == Len(path) > 1 /\ isPrimitive(fieldState)

\* Lines 242-274: the buttons of one NestedEditor.
NestedEditorButtons(path, fieldState) ==
  (IF isMap(fieldState)
   THEN <<[label |-> "Add field",
           action |-> addField([path |-> Append(path, ""), value |-> Str("")])]>>
   ELSE <<>>)
  \o (IF isArray(fieldState)
      THEN <<[label |-> "Add field",
              action |-> addField([path |-> Append(path, IndexString(Len(path))),
                                   value |-> Str("")])]>>
      ELSE <<>>)
  \o (IF RemoveOffered(path, fieldState)
      THEN <<[label |-> "Remove field", action |-> deleteField(path)]>>
      ELSE <<>>)

\* Lines 187-208: the leaf editors rendered for a field's value.
fieldEditorNumberAsString(fieldState) ==
  (IF isString(fieldState) \/ isNumber(fieldState) THEN <<"StringEditor">> ELSE <<>>)
  \o (IF isBoolean(fieldState) THEN <<"BooleanEditor">> ELSE <<>>)
  \o (IF isGeoPoint(fieldState) THEN <<"GeoPointEditor">> ELSE <<>>)
  \o (IF isTimestamp(fieldState) THEN <<"TimestampEditor">> ELSE <<>>)
  \o (IF isReference(fieldState) THEN <<"ReferenceEditor">> ELSE <<>>)

fieldEditor(fieldState) ==
  (IF isString(fieldState) THEN <<"StringEditor">> ELSE <<>>)
  \o (IF isNumber(fieldState) THEN <<"NumberEditor">> ELSE <<>>)
  \o (IF isBoolean(fieldState) THEN <<"BooleanEditor">> ELSE <<>>)
  \o (IF isGeoPoint(fieldState) THEN <<"GeoPointEditor">> ELSE <<>>)
  \o (IF isTimestamp(fieldState) THEN <<"TimestampEditor">> ELSE <<>>)
  \o (IF isReference(fieldState) THEN <<"ReferenceEditor">> ELSE <<>>)

\* Lines 222-227: the handlers the key text field gets.
KeyFieldHandlersAlways(isKeyMutable) == {"onChange", "onBlur"}

KeyFieldHandlers(isKeyMutable) == IF isKeyMutable THEN {"onChange", "onBlur"} ELSE {}

\* Line 235: the options of the type select.
TypeOptions(rtdb) == IF rtdb THEN RTDB_FIELD_TYPES ELSE FIRESTORE_FIELD_TYPES

\* The values a leaf editor hands to its onChange.
EditorValues(editor) ==
  CASE editor = "StringEditor" -> {Str(""), Str("x")}
    [] editor = "NumberEditor" -> {Num(0)}
    [] editor = "BooleanEditor" -> {Bool(TRUE)}
    [] editor = "GeoPointEditor" -> {GeoPoint(0)}
    [] editor = "TimestampEditor" -> {Timestamp(0)}
    [] editor = "ReferenceEditor" -> {DocumentReference("")}

\* All NestedEditor elements on screen.
Editors == IF mounted THEN RootField(state, areRootKeysMutable, isRtdb) ELSE <<>>

RECURSIVE NodeCount(_)
NodeCount(value) ==
  IF value.t = "Object"
  THEN LET ks == Object_keys(value)
           RECURSIVE Sum(_)
           Sum(i) == IF i = 0 THEN 0 ELSE 1 + NodeCount(value.v[ks[i]]) + Sum(i - 1)
       IN  Sum(Len(ks))
  ELSE IF value.t = "Array"
  THEN LET RECURSIVE Sum(_)
           Sum(i) == IF i = 0 THEN 0 ELSE 1 + NodeCount(value.v[i]) + Sum(i - 1)
       IN  Sum(Len(value.v))
  ELSE 0

(***************************************************************************)
(* DocumentEditor as a state machine: mount, RootField's effect, and one   *)
(* action per event handler of the rendered controls                       *)
(***************************************************************************)
\* Callback identities a parent may pass as onChange (the prop is "none" when absent).
Callbacks == {"f", "g"}

\* Documents DocumentEditor is constructed with (prop value).
InitialDocuments ==
  { EmptyObj,
    Obj(<<"a">>, [k \in {"a"} |-> Str("x")]),
    Obj(<<"a", "">>, [k \in {"a", ""} |-> Str("x")]),
    Obj(<<"a">>, [k \in {"a"} |-> Arr(<<Num(0)>>)]),
    Obj(<<"a">>, [k \in {"a"} |-> Obj(<<"">>, [c \in {""} |-> Null])]) }

NoKeyText == [p \in {} |-> ""]

\* Line 123: the dependency list of RootField's effect; React compares each entry with
\* Object.is, so the state enters by the identity of its object.
EffectDepsCallbackOnly(callback, stateObject) == <<callback>>

EffectDeps(callback, stateObject) == <<callback, stateObject>>

\* Line 166: useState keeps the key text of an editor that stays mounted and initialises
\* a new editor's with the last name of its path.
KeyTextAfter(doc) ==
  LET eds == RootField(doc, areRootKeysMutable, isRtdb)
  IN  [p \in {eds[i].path : i \in DOMAIN eds} |->
         IF p \in DOMAIN keyText THEN keyText[p] ELSE lastFieldName(p)]

\* A render of RootField and its editors with document `doc`, held in the state object
\* `ref`, and callback `callback`: the effect is scheduled when its dependencies differ
\* from the last render's.
Commit(doc, ref, callback) ==
  /\ keyText' = KeyTextAfter(doc)
  /\ effectDeps' = EffectDeps(callback, ref)
  /\ effectPending' = (EffectDeps(callback, ref) # effectDeps)

DocInit(rootKeysMutable, rootFieldsMutable, rtdb, callbacks, documents) ==
  /\ areRootKeysMutable \in rootKeysMutable
  /\ areRootFieldsMutable \in rootFieldsMutable
  /\ isRtdb \in rtdb
  /\ onChange \in callbacks
  /\ mounted = FALSE
  /\ state \in documents
  /\ stateRef = 0
  /\ keyText = NoKeyText
  /\ lastAction = NoAction
  /\ effectPending = FALSE
  /\ effectDeps = <<>>
  /\ onChangeArg = Undefined

\* First render: every effect runs after it.
Mount ==
  /\ ~mounted
  /\ mounted' = TRUE
  /\ keyText' = KeyTextAfter(state)
  /\ effectDeps' = EffectDeps(onChange, stateRef)
  /\ effectPending' = TRUE
  /\ UNCHANGED <<areRootKeysMutable, areRootFieldsMutable, isRtdb, onChange, state, stateRef,
                 lastAction, onChangeArg>>
  /\ UNCHANGED evalVars

\* Lines 121-123: onChange && onChange(state).
RunEffect ==
  /\ mounted /\ effectPending
  /\ effectPending' = FALSE
  /\ onChangeArg' = IF onChange # "none" THEN state ELSE onChangeArg
  /\ UNCHANGED <<areRootKeysMutable, areRootFieldsMutable, isRtdb, onChange, mounted, state,
                 stateRef, keyText, lastAction, effectDeps>>
  /\ UNCHANGED evalVars

\* The parent renders DocumentEditor again with another onChange callback.
ParentRender ==
  /\ mounted /\ ~effectPending
  /\ \E callback \in Callbacks \ {onChange} :
       /\ onChange' = callback
       /\ Commit(state, stateRef, callback)
  /\ UNCHANGED <<areRootKeysMutable, areRootFieldsMutable, isRtdb, mounted, state, stateRef,
                 lastAction, onChangeArg>>
  /\ UNCHANGED evalVars

\* dispatch(action): the reducer runs and the components render with the new state.
Dispatch(action) ==
  LET doc == reducer(state, action)
  IN  /\ NodeCount(doc) <= MaxNodes
      /\ \E newState \in NewStateOutcomes(state, action) :
           LET ref == IF newState THEN 1 - stateRef ELSE stateRef
           IN  /\ state' = doc
               /\ stateRef' = ref
               /\ lastAction' = action
               /\ Commit(doc, ref, onChange)
      /\ UNCHANGED <<areRootKeysMutable, areRootFieldsMutable, isRtdb, onChange, mounted,
                     onChangeArg>>
      /\ UNCHANGED evalVars

\* The NestedEditor elements on screen, as a set.
EditorSet == LET eds == Editors IN {eds[i] : i \in DOMAIN eds}

\* Lines 139 and 149: a click on one of RootField's buttons.
ClickRootButton ==
  /\ mounted /\ ~effectPending
  /\ LET buttons == RootFieldButtons(state, areRootFieldsMutable)
     IN  \E i \in DOMAIN buttons : Dispatch(buttons[i].action)

\* Lines 247, 257 and 272: a click on one of a NestedEditor's buttons.
ClickNestedButton ==
  /\ mounted /\ ~effectPending
  /\ \E ed \in EditorSet :
       LET buttons == NestedEditorButtons(ed.path, useFieldState(state, ed.path))
       IN  \E i \in DOMAIN buttons : Dispatch(buttons[i].action)

\* Lines 210-212: typing into the key text field.
handleKeyChange ==
  /\ mounted /\ ~effectPending
  /\ \E ed \in EditorSet, text \in Keys :
       /\ "onChange" \in KeyFieldHandlers(ed.isKeyMutable)
       /\ keyText' = [keyText EXCEPT ![ed.path] = text]
  /\ UNCHANGED <<areRootKeysMutable, areRootFieldsMutable, isRtdb, onChange, mounted, state,
                 stateRef, lastAction, effectPending, effectDeps, onChangeArg>>
  /\ UNCHANGED evalVars

\* Lines 214-216: the key text field loses focus.
handleKeyBlur ==
  /\ mounted /\ ~effectPending
  /\ \E ed \in EditorSet :
       /\ "onBlur" \in KeyFieldHandlers(ed.isKeyMutable)
       /\ Dispatch(updateKey([path |-> ed.path, key |-> keyText[ed.path]]))

\* Lines 237-239: the onChange handler of the type select dispatches updateType with the
\* option it is handed, whichever it is (the handler does not compare it with the type
\* shown).
SelectType ==
  /\ mounted /\ ~effectPending
  /\ \E ed \in EditorSet :
       LET options == TypeOptions(ed.isRtdb)
       IN  \E i \in DOMAIN options :
             Dispatch(updateType([path |-> ed.path, type |-> options[i]]))

\* Lines 183-185: a leaf editor reports a new value.
handleEditValue ==
  /\ mounted /\ ~effectPending
  /\ \E ed \in EditorSet :
       LET leaves == fieldEditor(useFieldState(state, ed.path))
       IN  \E i \in DOMAIN leaves : \E value \in EditorValues(leaves[i]) :
             Dispatch(updateField([path |-> ed.path, value |-> value]))

(***************************************************************************)
(* ../../../store/firestoreRules: the slice EvaluationDetails is connected *)
(* to                                                                      *)
(***************************************************************************)
\* Longest list of line outcomes an evaluation carries.
MaxLines == 2

EvalIds == {"e1", "e2"}

\* Entries of granularAllowOutcomes as the emulator supplies them: besides the line and
\* its outcome an entry carries further data of the evaluation (here the column).
GranularAllowOutcomes ==
  { [line |-> 1, column |-> 4, outcome |-> "allow"],
    [line |-> 2, column |-> 6, outcome |-> "deny"],
    [line |-> 2, column |-> 6, outcome |-> "error"] }

SeqsUpTo(S, n) == UNION {[1..m -> S] : m \in 0..n}

\* The evaluations the emulator may supply for request `id`; `ref` is the identity of the
\* object: two reports of the same evaluation are two objects.
Evaluations(id) ==
  {[t |-> "Evaluation", ref |-> r, requestId |-> id, granularAllowOutcomes |-> g] :
     r \in {0, 1},
     g \in {Undefined} \cup {Arr(q) : q \in SeqsUpTo(GranularAllowOutcomes, MaxLines)}}

getRequestEvaluationById(requestEvaluationId) ==
  [type |-> "getRequestEvaluationById", id |-> requestEvaluationId]

\* The reducer's case for getRequestEvaluationById: it records the selected id.
selectedIdReducer(selectedId, action) ==
  IF action.type = "getRequestEvaluationById" THEN action.id ELSE selectedId

\* The selector: the stored evaluation whose request id is the selected one.
getSelectedRequestEvaluation(evaluations, selectedId) ==
  IF selectedId \in DOMAIN evaluations THEN evaluations[selectedId] ELSE Undefined

(***************************************************************************)
(* ../Rules/EvaluationDetails.tsx                                          *)
(***************************************************************************)
\* Lines 55-60: selectedEvaluation?.granularAllowOutcomes?.map(...)
linesOutcomeWholeEntries(selectedEvaluation) ==
  IF selectedEvaluation.t = "undefined" THEN Undefined
  ELSE selectedEvaluation.granularAllowOutcomes

linesOutcome(selectedEvaluation) ==
  IF selectedEvaluation.t = "undefined" THEN Undefined
  ELSE IF selectedEvaluation.granularAllowOutcomes.t = "undefined" THEN Undefined
  ELSE Arr([i \in 1..Len(selectedEvaluation.granularAllowOutcomes.v) |->
             [line |-> selectedEvaluation.granularAllowOutcomes.v[i].line,
              outcome |-> selectedEvaluation.granularAllowOutcomes.v[i].outcome]])

\* Line 64: the dependency list of the effect (getEvaluationById is created once by
\* connect); the selected evaluation enters by the identity of its object.
EvalEffectDepsNoId(id, selectedEvaluation) == <<"getEvaluationById", selectedEvaluation>>

EvalEffectDeps(id, selectedEvaluation) == <<"getEvaluationById", id, selectedEvaluation>>

\* Props from state (lines 85-87).
selectedEvaluationProp == getSelectedRequestEvaluation(requestEvaluations, selectedRequestEvaluationId)

\* A render of EvaluationDetails with the given URL parameter and store contents.
EvalCommit(id, evaluations, selectedId) ==
  LET deps == EvalEffectDeps(id, getSelectedRequestEvaluation(evaluations, selectedId))
  IN  /\ evalEffectDeps' = deps
      /\ evalEffectPending' = (deps # evalEffectDeps)

EvalInit(ids, stores) ==
  /\ evaluationId \in ids
  /\ requestEvaluations \in stores
  /\ selectedRequestEvaluationId = "null"
  /\ evalMounted = FALSE
  /\ evalEffectPending = FALSE
  /\ evalEffectDeps = <<>>
  /\ evalLastAction = NoAction

\* The stores the view may be constructed over: every id has no evaluation yet or one.
Stores ==
  UNION {[ids -> UNION {Evaluations(id) : id \in EvalIds}] : ids \in SUBSET EvalIds}

WellFormedStore(evaluations) ==
  \A id \in DOMAIN evaluations : evaluations[id].requestId = id /\ evaluations[id].ref = 0

EvalMount ==
  /\ ~evalMounted
  /\ evalMounted' = TRUE
  /\ evalEffectDeps' = EvalEffectDeps(evaluationId, selectedEvaluationProp)
  /\ evalEffectPending' = TRUE
  /\ UNCHANGED <<evaluationId, requestEvaluations, selectedRequestEvaluationId, evalLastAction>>
  /\ UNCHANGED docVars

\* Lines 62-64 and 91-94: the effect calls getEvaluationById(evaluationId), which dispatches
\* getRequestEvaluationById; the store selects the id and the view renders again.
EvalRunEffect ==
  /\ evalMounted /\ evalEffectPending
  /\ LET action == getRequestEvaluationById(evaluationId)
         selectedId == selectedIdReducer(selectedRequestEvaluationId, action)
     IN  /\ evalLastAction' = action
         /\ selectedRequestEvaluationId' = selectedId
         /\ LET deps == EvalEffectDeps(evaluationId,
                          getSelectedRequestEvaluation(requestEvaluations, selectedId))
            IN  /\ evalEffectDeps' = deps
                /\ evalEffectPending' = (deps # evalEffectDeps)
  /\ UNCHANGED <<evaluationId, requestEvaluations, evalMounted>>
  /\ UNCHANGED docVars

\* The route changes to another evaluation.
UrlChange ==
  /\ evalMounted /\ ~evalEffectPending
  /\ \E id \in EvalIds \ {evaluationId} :
       /\ evaluationId' = id
       /\ EvalCommit(id, requestEvaluations, selectedRequestEvaluationId)
  /\ UNCHANGED <<requestEvaluations, selectedRequestEvaluationId, evalMounted, evalLastAction>>
  /\ UNCHANGED docVars

\* The emulator reports an evaluation: the store keeps it under its request id.
ReceiveEvaluation ==
  /\ evalMounted /\ ~evalEffectPending
  /\ \E id \in EvalIds : \E evaluation \in Evaluations(id) :
       LET evaluations == [i \in (DOMAIN requestEvaluations) \cup {id} |->
                             IF i = id THEN evaluation ELSE requestEvaluations[i]]
       IN  /\ evaluation.ref = IF id \in DOMAIN requestEvaluations
                               THEN 1 - requestEvaluations[id].ref ELSE 0
           /\ requestEvaluations' = evaluations
           /\ EvalCommit(evaluationId, evaluations, selectedRequestEvaluationId)
  /\ UNCHANGED <<evaluationId, selectedRequestEvaluationId, evalMounted, evalLastAction>>
  /\ UNCHANGED docVars

(***************************************************************************)
(* Specifications                                                          *)
(***************************************************************************)
EvalIdle == EvalInit({"e1"}, {[id \in {} |-> Undefined]})

DocIdle == DocInit({TRUE}, {TRUE}, {FALSE}, {"none"}, {EmptyObj})

\* Values of <<areRootKeysMutable, areRootFieldsMutable, rtdb>>: the defaults of lines
\* 92-94, and each prop set the other way.
PropCombinations == { <<TRUE, TRUE, FALSE>>, <<FALSE, FALSE, TRUE>> }

\* DocumentEditor under these props, without an onChange callback.
Init ==
  /\ \E props \in PropCombinations :
       DocInit({props[1]}, {props[2]}, {props[3]}, {"none"}, InitialDocuments)
  /\ EvalIdle

Next ==
  \/ Mount
  \/ RunEffect
  \/ ClickRootButton
  \/ ClickNestedButton
  \/ handleKeyChange
  \/ handleKeyBlur
  \/ SelectType
  \/ handleEditValue

Spec == Init /\ [][Next]_vars

\* DocumentEditor with an onChange callback the parent may replace, over a Firestore
\* document whose root fields may be added and removed and keep their keys.
InitOnChange == DocInit({FALSE}, {TRUE}, {FALSE}, {"f"}, InitialDocuments) /\ EvalIdle

NextOnChange == Next \/ ParentRender

SpecOnChange == InitOnChange /\ [][NextOnChange]_vars

\* EvaluationDetails over a store the emulator feeds.
InitEval ==
  /\ DocIdle
  /\ EvalInit(EvalIds, {s \in Stores : WellFormedStore(s) /\ Cardinality(DOMAIN s) <= 1})

NextEval ==
  \/ EvalMount
  \/ EvalRunEffect
  \/ UrlChange
  \/ ReceiveEvaluation

SpecEval == InitEval /\ [][NextEval]_vars

(***************************************************************************)
(* Properties                                                              *)
(***************************************************************************)
\* Every button on screen: RootField's own, then those of each NestedEditor.
AllButtons ==
  IF mounted
  THEN LET eds == Editors
       IN  RootFieldButtons(state, areRootFieldsMutable)
           \o Flatten([i \in DOMAIN eds |->
                NestedEditorButtons(eds[i].path, useFieldState(state, eds[i].path))])
  ELSE <<>>

\* The leaf editor that belongs to a field type.
LeafEditorOf(type) ==
  CASE type = "string" -> "StringEditor"
    [] type = "number" -> "NumberEditor"
    [] type = "boolean" -> "BooleanEditor"
    [] type = "geopoint" -> "GeoPointEditor"
    [] type = "timestamp" -> "TimestampEditor"
    [] type = "reference" -> "ReferenceEditor"

LeafTypes == {"string", "number", "boolean", "geopoint", "timestamp", "reference"}

\* C1: for the value at every rendered field, exactly one leaf editor is rendered when the
\* value is a string, number, boolean, geopoint, timestamp or reference, and it is the
\* editor of that type; none is rendered for a map, an array or null; never two.
C1_OneLeafEditorByType ==
  \A ed \in EditorSet :
    LET value == useFieldState(state, ed.path)
        rendered == fieldEditor(value)
    IN  /\ Len(rendered) <= 1
        /\ getFieldType(value) \in LeafTypes => rendered = <<LeafEditorOf(getFieldType(value))>>
        /\ getFieldType(value) \in {"map", "array", "null"} => rendered = <<>>

\* A document on screen with a reference field, whose editor is the ReferenceEditor, next
\* to a null field without a leaf editor.
C1_Witness ==
  /\ \E ed \in EditorSet :
       /\ getFieldType(useFieldState(state, ed.path)) = "reference"
       /\ fieldEditor(useFieldState(state, ed.path)) = <<"ReferenceEditor">>
  /\ \E ed \in EditorSet :
       /\ getFieldType(useFieldState(state, ed.path)) = "null"
       /\ fieldEditor(useFieldState(state, ed.path)) = <<>>

IsRootFieldChange(action) ==
  /\ action.type \in {"addField", "deleteField"}
  /\ Len(action.path) = 1

\* C2: with areRootFieldsMutable = false no addField or deleteField action with a path of
\* length 1 is dispatched and no button on screen would dispatch one; with
\* areRootFieldsMutable = true RootField shows, for every root field, one Remove field
\* button dispatching deleteField([field]), and one Add field button dispatching
\* addField({path: [''], value: ''}).
C2_RootFieldsMutability ==
  LET all == AllButtons
      root == RootFieldButtons(state, areRootFieldsMutable)
  IN  /\ ~areRootFieldsMutable =>
           /\ ~IsRootFieldChange(lastAction)
           /\ \A i \in DOMAIN all : ~IsRootFieldChange(all[i].action)
      /\ (areRootFieldsMutable /\ mounted) =>
           /\ \A field \in DOMAIN state.v :
                Cardinality({i \in DOMAIN root :
                               root[i] = [label |-> "Remove field",
                                          action |-> deleteField(<<field>>)]}) = 1
           /\ Cardinality({i \in DOMAIN root : root[i].label = "Remove field"})
                = Cardinality(DOMAIN state.v)
           /\ Cardinality({i \in DOMAIN root : root[i].label = "Add field"}) = 1
           /\ \A i \in DOMAIN root :
                root[i].label = "Add field" =>
                  root[i].action = addField([path |-> <<"">>, value |-> Str("")])

\* Root fields are immutable and a nested field was just removed through its own
\* Remove field button, leaving its parent on screen.
C2_Witness ==
  /\ ~areRootFieldsMutable
  /\ mounted
  /\ lastAction.type = "deleteField"
  /\ Len(lastAction.path) = 2
  /\ get(state, getParentPath(lastAction.path)).t # "undefined"

\* Whether the editor at `path` has a mutable key: a root field when areRootKeysMutable,
\* a direct child of a map always, an element of an array never.
KeyIsMutable(path) ==
  IF Len(path) = 1 THEN areRootKeysMutable
  ELSE isMap(get(state, getParentPath(path)))

\* C3: an updateKey action is dispatched only by an editor whose key is mutable: with
\* areRootKeysMutable = false none with a path of length 1 is dispatched, and the key
\* text field of an editor has its change and blur handlers exactly when the editor is a
\* root field and areRootKeysMutable holds, or a direct child of a map; never for an
\* element of an array.
C3_KeyMutability ==
  /\ lastAction.type = "updateKey" =>
       /\ Len(lastAction.path) = 1 => areRootKeysMutable
       /\ Len(lastAction.path) > 1 => isMap(get(state, getParentPath(lastAction.path)))
  /\ \A ed \in EditorSet :
       /\ ("onBlur" \in KeyFieldHandlers(ed.isKeyMutable)) <=> KeyIsMutable(ed.path)
       /\ ("onChange" \in KeyFieldHandlers(ed.isKeyMutable)) <=> KeyIsMutable(ed.path)

\* Root keys are immutable and the key of a map's child was just changed to another name.
C3_Witness ==
  /\ ~areRootKeysMutable
  /\ lastAction.type = "updateKey"
  /\ Len(lastAction.path) = 2
  /\ lastAction.key # lastFieldName(lastAction.path)
  /\ \E ed \in EditorSet : ed.path = Append(getParentPath(lastAction.path), lastAction.key)

\* C6: the editors mirror the document: every NestedEditor sits at the path of a field
\* (never at the top-level map), no two share a path, there are as many as the document
\* has fields, every key of the root map and of a nested map and every index of an array
\* has its editor at the parent's path extended by the key or the decimal index, and no
\* editor sits below a primitive value.
C6_EditorsMirrorDocument ==
  LET eds == Editors
      paths == {eds[i].path : i \in DOMAIN eds}
  IN  mounted =>
        /\ \A i \in DOMAIN eds :
             /\ Len(eds[i].path) >= 1
             /\ get(state, eds[i].path).t # "undefined"
        /\ \A i, j \in DOMAIN eds : eds[i].path = eds[j].path => i = j
        /\ Len(eds) = NodeCount(state)
        /\ \A k \in DOMAIN state.v : <<k>> \in paths
        /\ \A p \in paths :
             LET value == get(state, p)
             IN  /\ isMap(value) => \A k \in DOMAIN value.v : Append(p, k) \in paths
                 /\ isArray(value) =>
                      \A n \in 0..(Len(value.v) - 1) : Append(p, IndexString(n)) \in paths
                 /\ isPrimitive(value) =>
                      ~\E q \in paths : Len(q) > Len(p) /\ SubSeq(q, 1, Len(p)) = p

\* A document on screen with an array that holds an element.
C6_Witness ==
  /\ mounted
  /\ \E ed \in EditorSet :
       /\ Len(ed.path) = 2
       /\ isArray(get(state, getParentPath(ed.path)))
       /\ ed.path[2] = "0"

\* C5: when an onChange callback is supplied, mounting schedules the first call; the
\* effect calls onChange with the document of that moment; every change of the document
\* state, that is every render with another state object, schedules one call, and none
\* is made before it; once the effect has run the argument of the most recent onChange
\* call equals the current document, after any sequence of edits; an edit that leaves
\* the document state (the state object) and the callback as they were schedules no call
\* and calls nothing.
C5_OnChangeFollowsDocument ==
  /\ []((mounted /\ onChange # "none" /\ ~effectPending) => onChangeArg = state)
  /\ [][(~mounted /\ mounted') => effectPending']_vars
  /\ [][(RunEffect /\ onChange # "none") => onChangeArg' = state]_vars
  /\ [][(mounted /\ stateRef' # stateRef)
          => (effectPending' /\ onChangeArg' = onChangeArg)]_vars
  /\ [][(mounted /\ ~effectPending /\ stateRef' = stateRef /\ onChange' = onChange)
          => (~effectPending' /\ onChangeArg' = onChangeArg)]_vars

\* After an edit that renamed a field, giving a document the editor did not start with,
\* the callback has been called with the edited document.
C5_Witness ==
  /\ mounted
  /\ ~effectPending
  /\ onChange # "none"
  /\ stateRef = 1
  /\ lastAction.type = "updateKey"
  /\ lastAction.key # lastFieldName(lastAction.path)
  /\ get(state, Append(getParentPath(lastAction.path), lastAction.key)).t # "undefined"
  /\ onChangeArg = state
  /\ state \notin InitialDocuments

\* C4: the only action EvaluationDetails dispatches is getRequestEvaluationById with the
\* evaluationId of the URL; once its effect has run, the last dispatch names the current
\* evaluationId; a dispatch leaves the stored evaluations untouched; and the effect is
\* scheduled by the mount and by every change of evaluationId or of the selected evaluation.
C4_OnlyFetchesById ==
  /\ [](evalLastAction.type \in {"none", "getRequestEvaluationById"})
  /\ []((evalMounted /\ ~evalEffectPending)
          => evalLastAction = getRequestEvaluationById(evaluationId))
  /\ [][(evalLastAction' # evalLastAction \/ EvalRunEffect)
          => (/\ evalLastAction' = getRequestEvaluationById(evaluationId)
              /\ requestEvaluations' = requestEvaluations)]_vars
  /\ [][(evalMounted' /\ (\/ ~evalMounted
                          \/ evaluationId' # evaluationId
                          \/ selectedEvaluationProp' # selectedEvaluationProp))
          => evalEffectPending']_vars

\* The view has fetched the evaluation of the URL, which the store holds, after the
\* store had selected the other one.
C4_Witness ==
  /\ evalMounted
  /\ ~evalEffectPending
  /\ evaluationId = "e2"
  /\ evalLastAction = getRequestEvaluationById("e2")
  /\ selectedEvaluationProp.t = "Evaluation"
  /\ "e1" \in DOMAIN requestEvaluations

\* C7: linesOutcome is undefined when no evaluation is selected or the selected one has
\* no granularAllowOutcomes; otherwise it has their length and order, and its i-th entry
\* is exactly the line and the outcome of the i-th granular outcome.
C7_LinesOutcomeIsProjection ==
  LET selected == selectedEvaluationProp
      shown == linesOutcome(selected)
  IN  IF selected.t = "undefined" THEN shown.t = "undefined"
      ELSE IF selected.granularAllowOutcomes.t = "undefined" THEN shown.t = "undefined"
      ELSE /\ shown.t = "Array"
           /\ Len(shown.v) = Len(selected.granularAllowOutcomes.v)
           /\ \A i \in 1..Len(shown.v) :
                /\ DOMAIN shown.v[i] = {"line", "outcome"}
                /\ shown.v[i].line = selected.granularAllowOutcomes.v[i].line
                /\ shown.v[i].outcome = selected.granularAllowOutcomes.v[i].outcome

\* The selected evaluation carries two different line outcomes, both shown.
C7_Witness ==
  /\ evalMounted
  /\ selectedEvaluationProp.t = "Evaluation"
  /\ selectedEvaluationProp.granularAllowOutcomes.t = "Array"
  /\ Len(selectedEvaluationProp.granularAllowOutcomes.v) = 2
  /\ selectedEvaluationProp.granularAllowOutcomes.v[1]
       # selectedEvaluationProp.granularAllowOutcomes.v[2]
  /\ Len(linesOutcome(selectedEvaluationProp).v) = 2

====
